---- MODULE Spec2Model ----
(***************************************************************************)
(* templet - Simple Template Manager (src/templet.py).                     *)
(*                                                                         *)
(* A session of TemplateManager: the catalog loaded at construction, the   *)
(* selected index, the main loop of run() in raw (termios) mode and in     *)
(* fallback (line command) mode, and create_file_from_template.            *)
(*                                                                         *)
(* Python strings are sequences of one-character strings.  Characters      *)
(* that are not printable ASCII are written as tokens: "CR", "LF", "TAB",  *)
(* "ESC" (\x1b), "ETX" (\x03), "SUP2" (U+00B2), "STAR" (U+2726),           *)
(* "CAL" (U+1F4C5), "BULLET" (U+2022).                                     *)
(***************************************************************************)
EXTENDS Integers, Sequences, FiniteSets, TLC

(***************************************************************************)
(* Bounds of the model.                                                    *)
(***************************************************************************)
\* number of one-second clock ticks a session may observe
MaxTicks == 1

\* number of files the working directory holds when the session starts
MaxCwdFiles == 2

\* number of entries of the directories the catalog is listed from
MaxDirEntries == 3

(***************************************************************************)
(* Module level constants of templet.py.                                   *)
(***************************************************************************)
TEXT_EXTENSIONS ==
    { <<".","R">>, <<".","a","s","m">>, <<".","b","a","s","h">>, <<".","c">>,
      <<".","c","f","g">>, <<".","c","l","j">>, <<".","c","l","j","s">>,
      <<".","c","o","n","f">>, <<".","c","p","p">>, <<".","c","s","s">>, <<".","c","s","v">>,
      <<".","d","a","r","t">>, <<".","d","o","c","k","e","r","i","g","n","o","r","e">>,
      <<".","e","d","n">>, <<".","e","l","m">>, <<".","e","n","v">>, <<".","e","x">>,
      <<".","e","x","s">>, <<".","f","i","s","h">>, <<".","f","s">>, <<".","f","s","i">>,
      <<".","f","s","x">>, <<".","g","i","t","i","g","n","o","r","e">>, <<".","g","o">>,
      <<".","g","r","a","d","l","e">>, <<".","h">>, <<".","h","p","p">>,
      <<".","h","t","m","l">>, <<".","h","x">>, <<".","h","x","m","l">>, <<".","i","n","c">>,
      <<".","i","n","i">>, <<".","j","a","v","a">>, <<".","j","l">>, <<".","j","s">>,
      <<".","j","s","o","n">>, <<".","j","s","x">>, <<".","k","t">>, <<".","l","e","s","s">>,
      <<".","l","u","a">>, <<".","m","d">>, <<".","m","l">>, <<".","m","l","i">>,
      <<".","n","i","m">>, <<".","n","i","m","s">>, <<".","p","a","s">>, <<".","p","h","p">>,
      <<".","p","l">>, <<".","p","m">>, <<".","p","p">>, <<".","p","y">>, <<".","r">>,
      <<".","r","b">>, <<".","r","s">>, <<".","r","s","t">>, <<".","s">>,
      <<".","s","a","s","s">>, <<".","s","b","t">>, <<".","s","c","s","s">>, <<".","s","h">>,
      <<".","s","q","l">>, <<".","s","v","e","l","t","e">>, <<".","s","w","i","f","t">>,
      <<".","t","c","l">>, <<".","t","e","x">>, <<".","t","o","m","l">>, <<".","t","s">>,
      <<".","t","s","x">>, <<".","t","x","t">>, <<".","v">>, <<".","v","i","m">>,
      <<".","v","s","h">>, <<".","v","u","e">>, <<".","x","m","l">>, <<".","y","a","m","l">>,
      <<".","y","m","l">>, <<".","z","i","g">>, <<".","z","s","h">> }

NO_EXT_FILES ==
    { <<".","g","i","t","i","g","n","o","r","e">>, <<"A","U","T","H","O","R","S">>,
      <<"A","p","p","f","i","l","e">>, <<"A","p","p","r","a","i","s","a","l","s">>,
      <<"B","e","r","k","s","f","i","l","e">>, <<"B","r","e","w","f","i","l","e">>,
      <<"C","H","A","N","G","E","L","O","G">>,
      <<"C","O","N","T","R","I","B","U","T","O","R","S">>, <<"C","O","P","Y","I","N","G">>,
      <<"C","a","p","f","i","l","e">>, <<"D","e","l","i","v","e","r","f","i","l","e">>,
      <<"D","o","c","k","e","r","f","i","l","e">>, <<"F","a","s","t","f","i","l","e">>,
      <<"G","e","m","f","i","l","e">>, <<"G","u","a","r","d","f","i","l","e">>,
      <<"G","y","m","f","i","l","e">>, <<"H","I","S","T","O","R","Y">>,
      <<"I","N","S","T","A","L","L">>, <<"L","I","C","E","N","S","E">>,
      <<"M","A","N","I","F","E","S","T">>, <<"M","a","k","e","f","i","l","e">>,
      <<"M","a","t","c","h","f","i","l","e">>, <<"N","E","W","S">>,
      <<"N","O","T","I","C","E">>, <<"P","i","p","f","i","l","e">>,
      <<"P","r","o","c","f","i","l","e">>, <<"R","E","A","D","M","E">>,
      <<"R","a","k","e","f","i","l","e">>, <<"S","c","a","n","f","i","l","e">>,
      <<"T","H","A","N","K","S">>, <<"T","h","o","r","f","i","l","e">>,
      <<"V","a","g","r","a","n","t","f","i","l","e">> }

(***************************************************************************)
(* Python string primitives used by the program.                           *)
(***************************************************************************)
\* code point of a character (ord), the order sorted() compares by
Ord ==
    " " :> 32 @@ "!" :> 33 @@ "#" :> 35 @@ "$" :> 36 @@ "%" :> 37 @@ "&" :> 38 @@
    "'" :> 39 @@ "(" :> 40 @@ ")" :> 41 @@ "*" :> 42 @@ "+" :> 43 @@ "," :> 44 @@
    "-" :> 45 @@ "." :> 46 @@ "/" :> 47 @@ "0" :> 48 @@ "1" :> 49 @@ "2" :> 50 @@
    "3" :> 51 @@ "4" :> 52 @@ "5" :> 53 @@ "6" :> 54 @@ "7" :> 55 @@ "8" :> 56 @@
    "9" :> 57 @@ ":" :> 58 @@ ";" :> 59 @@ "<" :> 60 @@ "=" :> 61 @@ ">" :> 62 @@
    "?" :> 63 @@ "@" :> 64 @@ "A" :> 65 @@ "B" :> 66 @@ "C" :> 67 @@ "D" :> 68 @@
    "E" :> 69 @@ "F" :> 70 @@ "G" :> 71 @@ "H" :> 72 @@ "I" :> 73 @@ "J" :> 74 @@
    "K" :> 75 @@ "L" :> 76 @@ "M" :> 77 @@ "N" :> 78 @@ "O" :> 79 @@ "P" :> 80 @@
    "Q" :> 81 @@ "R" :> 82 @@ "S" :> 83 @@ "T" :> 84 @@ "U" :> 85 @@ "V" :> 86 @@
    "W" :> 87 @@ "X" :> 88 @@ "Y" :> 89 @@ "Z" :> 90 @@ "[" :> 91 @@ "]" :> 93 @@
    "^" :> 94 @@ "_" :> 95 @@ "a" :> 97 @@ "b" :> 98 @@ "c" :> 99 @@
    "d" :> 100 @@ "e" :> 101 @@ "f" :> 102 @@ "g" :> 103 @@ "h" :> 104 @@ "i" :> 105 @@
    "j" :> 106 @@ "k" :> 107 @@ "l" :> 108 @@ "m" :> 109 @@ "n" :> 110 @@ "o" :> 111 @@
    "p" :> 112 @@ "q" :> 113 @@ "r" :> 114 @@ "s" :> 115 @@ "t" :> 116 @@ "u" :> 117 @@
    "v" :> 118 @@ "w" :> 119 @@ "x" :> 120 @@ "y" :> 121 @@ "z" :> 122 @@ "{" :> 123 @@
    "|" :> 124 @@ "}" :> 125 @@ "~" :> 126 @@ "TAB" :> 9 @@ "LF" :> 10 @@ "CR" :> 13 @@
    "ESC" :> 27 @@ "ETX" :> 3 @@ "SUP2" :> 178 @@ "BULLET" :> 8226 @@ "STAR" :> 10022 @@
    "CAL" :> 128197

IsUpper(c) == Ord[c] >= 65 /\ Ord[c] <= 90

\* str.lower() of one character
LowerChar(c) ==
    IF IsUpper(c) THEN CHOOSE d \in DOMAIN Ord : Ord[d] = Ord[c] + 32 ELSE c

\* str.lower()
RECURSIVE Lower(_)
Lower(s) == IF s = <<>> THEN <<>> ELSE <<LowerChar(Head(s))>> \o Lower(Tail(s))

\* the characters str.strip() removes
IsSpace(c) == c \in {" ", "TAB", "LF", "CR"}

RECURSIVE LStrip(_)
LStrip(s) == IF s /= <<>> /\ IsSpace(Head(s)) THEN LStrip(Tail(s)) ELSE s

RECURSIVE RStrip(_)
RStrip(s) ==
    IF s /= <<>> /\ IsSpace(s[Len(s)]) THEN RStrip(SubSeq(s, 1, Len(s) - 1)) ELSE s

\* str.strip()
Strip(s) == RStrip(LStrip(s))

\* '.' in s
HasDot(s) == \E i \in 1..Len(s) : s[i] = "."

\* s.rfind('.') as a 1-based position, 0 when there is no '.'
LastDot(s) ==
    IF HasDot(s) THEN CHOOSE i \in 1..Len(s) :
                          s[i] = "." /\ \A j \in (i + 1)..Len(s) : s[j] /= "."
    ELSE 0

\* s.rsplit('.', 1) for a string that holds a '.'
RSplitDot(s) == <<SubSeq(s, 1, LastDot(s) - 1), SubSeq(s, LastDot(s) + 1, Len(s))>>

\* the decimal digits int() parses
DecimalDigits == {"0", "1", "2", "3", "4", "5", "6", "7", "8", "9"}

DigitChars == <<"0", "1", "2", "3", "4", "5", "6", "7", "8", "9">>

\* str.isdigit(): non-empty, every character has the Unicode digit property
\* (the decimal digits and, among others, the superscript two)
IsDigitChar(c) == c \in DecimalDigits \/ c = "SUP2"

IsDigit(s) == s /= <<>> /\ \A i \in 1..Len(s) : IsDigitChar(s[i])

DigitVal(c) == Ord[c] - 48

\* int(s) succeeds exactly on strings of decimal digits (given isdigit)
IntParses(s) == s /= <<>> /\ \A i \in 1..Len(s) : s[i] \in DecimalDigits

RECURSIVE IntOf(_)
IntOf(s) ==
    IF s = <<>> THEN 0 ELSE 10 * IntOf(SubSeq(s, 1, Len(s) - 1)) + DigitVal(s[Len(s)])

\* str(n) of a natural number, as the f-string formats the counter
RECURSIVE StrOfNat(_)
StrOfNat(n) ==
    IF n < 10 THEN <<DigitChars[n + 1]>>
    ELSE StrOfNat(n \div 10) \o <<DigitChars[(n % 10) + 1]>>

\* zero padded two and four digit fields of strftime
Pad2(n) == <<DigitChars[(n \div 10) + 1], DigitChars[(n % 10) + 1]>>

Pad4(n) == Pad2(n \div 100) \o Pad2(n % 100)

\* s < t in Python's string order (code point by code point)
RECURSIVE StrLess(_, _)
StrLess(s, t) ==
    IF t = <<>> THEN FALSE
    ELSE IF s = <<>> THEN TRUE
    ELSE IF Ord[Head(s)] /= Ord[Head(t)] THEN Ord[Head(s)] < Ord[Head(t)]
    ELSE StrLess(Tail(s), Tail(t))

\* sorted() of a set of distinct strings
RECURSIVE Sorted(_)
Sorted(S) ==
    IF S = {} THEN <<>>
    ELSE LET least == CHOOSE s \in S : \A t \in S \ {s} : StrLess(s, t)
         IN  <<least>> \o Sorted(S \ {least})

\* max() that lets its second argument through
MaxUnclamped(a, b) == b

Max(a, b) == IF a >= b THEN a ELSE b

\* min() that lets its second argument through
MinUnclamped(a, b) == b

Min(a, b) == IF a <= b THEN a ELSE b

(***************************************************************************)
(* The file system: a directory maps a file name to its kind and its raw   *)
(* content as stored on disk.                                              *)
(***************************************************************************)
report_txt == <<"r","e","p","o","r","t",".","t","x","t">>

report_1_txt == <<"r","e","p","o","r","t","-","1",".","t","x","t">>

notes_MD == <<"n","o","t","e","s",".","M","D">>

script_sh == <<"s","c","r","i","p","t",".","s","h">>

NEWS == <<"N","E","W","S">>

NEWS_1 == <<"N","E","W","S","-","1">>

photo_png == <<"p","h","o","t","o",".","p","n","g">>

old_txt == <<"o","l","d",".","t","x","t">>

dated_report_txt == <<"2","0","2","4","-","0","3","-","0","1","-">> \o report_txt

dated_NEWS == <<"2","0","2","4","-","0","2","-","2","9","-">> \o NEWS

File(content) == [kind |-> "file", content |-> content]

Directory == [kind |-> "dir", content |-> <<>>]

\* contents the template directory may hold when the program starts
DirChoices ==
    { [n \in {} |-> Directory],
      (photo_png :> File(<<"P">>)) @@ (old_txt :> Directory),
      (report_txt :> File(<<"a","LF">>)),
      (script_sh :> File(<<"x","CR","LF","y">>)) @@ (report_txt :> File(<<"a","CR","b">>))
          @@ (NEWS :> File(<<>>)) @@ (photo_png :> File(<<"P">>)),
      (notes_MD :> File(<<"t","CR","LF">>)) @@ (NEWS :> File(<<"n","LF","m">>))
          @@ (old_txt :> Directory) }

\* names of files the working directory may hold when the program starts
CwdNames ==
    { report_txt, report_1_txt, NEWS, NEWS_1, dated_report_txt, dated_NEWS }

CwdChoices ==
    { [n \in S |-> File(<<"o">>)] : S \in {T \in SUBSET CwdNames : Cardinality(T) <= MaxCwdFiles} }

\* Path.name of the entries that are regular files (f.is_file())
RegularFiles(dir) == {n \in DOMAIN dir : dir[n].kind = "file"}

\* Path.suffix: the part from the last '.', empty when that '.' leads or ends the name
Suffix(name) ==
    IF LastDot(name) > 1 /\ LastDot(name) < Len(name)
    THEN SubSeq(name, LastDot(name), Len(name))
    ELSE <<>>

\* the extension compared as it is spelled, without lower()
is_supported_file_case_sensitive(name) ==
    IF name \in NO_EXT_FILES THEN TRUE
    ELSE Suffix(name) \in TEXT_EXTENSIONS

is_supported_file(name) ==
    IF name \in NO_EXT_FILES THEN TRUE
    ELSE Lower(Suffix(name)) \in TEXT_EXTENSIONS

load_templates(dir) == Sorted({n \in RegularFiles(dir) : is_supported_file(n)})

(***************************************************************************)
(* The clock read by datetime.now(): one tick is one second, the session   *)
(* starts one second before midnight of 2024-02-29.                        *)
(***************************************************************************)
DateTimeAt(t) ==
    LET total == 86399 + t
        day == total \div 86400
        sod == total % 86400
    IN  [year |-> 2024,
         month |-> IF day = 0 THEN 2 ELSE 3,
         day |-> IF day = 0 THEN 29 ELSE day,
         hour |-> sod \div 3600,
         minute |-> (sod % 3600) \div 60,
         second |-> sod % 60]

\* strftime('%Y-%m-%d')
StrfDate(dt) == Pad4(dt.year) \o <<"-">> \o Pad2(dt.month) \o <<"-">> \o Pad2(dt.day)

\* strftime('%Y-%m-%d • %H:%M:%S')
StrfDateTime(dt) ==
    StrfDate(dt) \o <<" ", "BULLET", " ">> \o Pad2(dt.hour) \o <<":">> \o Pad2(dt.minute)
        \o <<":">> \o Pad2(dt.second)

(***************************************************************************)
(* Text mode file input and output (open(..., 'r') / open(..., 'w')).      *)
(***************************************************************************)
\* read(): universal newlines, "\r\n" and "\r" become "\n"
RECURSIVE ReadText(_)
ReadText(raw) ==
    IF raw = <<>> THEN <<>>
    ELSE IF Head(raw) = "CR"
         THEN IF Len(raw) >= 2 /\ raw[2] = "LF"
              THEN <<"LF">> \o ReadText(SubSeq(raw, 3, Len(raw)))
              ELSE <<"LF">> \o ReadText(Tail(raw))
         ELSE <<Head(raw)>> \o ReadText(Tail(raw))

\* os.linesep
LineSep(os) == IF os = "nt" THEN <<"CR", "LF">> ELSE <<"LF">>

\* write(): "\n" becomes os.linesep
RECURSIVE WriteText(_, _)
WriteText(text, os) ==
    IF text = <<>> THEN <<>>
    ELSE (IF Head(text) = "LF" THEN LineSep(os) ELSE <<Head(text)>>)
             \o WriteText(Tail(text), os)

(***************************************************************************)
(* create_file_from_template                                               *)
(***************************************************************************)
\* base name and extension of the template name
BaseName(template_name) ==
    IF HasDot(template_name) THEN RSplitDot(template_name)[1] ELSE template_name

Extension(template_name) ==
    IF HasDot(template_name) THEN <<".">> \o RSplitDot(template_name)[2] ELSE <<>>

\* the date prefix applied whatever the flag says
NewFilenameAlwaysDated(template_name, add_date_prefix, dt) ==
    StrfDate(dt) \o <<"-">> \o BaseName(template_name) \o Extension(template_name)

\* the generated file name, before conflicts are handled
NewFilename(template_name, add_date_prefix, dt) ==
    IF add_date_prefix
    THEN StrfDate(dt) \o <<"-">> \o BaseName(template_name) \o Extension(template_name)
    ELSE BaseName(template_name) \o Extension(template_name)

\* one rewrite of the name inside the conflict loop
Renamed(original_filename, counter) ==
    IF HasDot(original_filename)
    THEN RSplitDot(original_filename)[1] \o <<"-">> \o StrOfNat(counter) \o <<".">>
             \o RSplitDot(original_filename)[2]
    ELSE original_filename \o <<"-">> \o StrOfNat(counter)

\* the loop rewriting the name it has reached instead of the original one
RECURSIVE ConflictLoopCompound(_, _, _, _)
ConflictLoopCompound(new_filename, original_filename, counter, existing) ==
    IF new_filename \in existing
    THEN ConflictLoopCompound(Renamed(new_filename, counter), original_filename,
                              counter + 1, existing)
    ELSE new_filename

\* the loop incrementing the counter before it builds the name
RECURSIVE ConflictLoopIncrementFirst(_, _, _, _)
ConflictLoopIncrementFirst(new_filename, original_filename, counter, existing) ==
    IF new_filename \in existing
    THEN ConflictLoopIncrementFirst(Renamed(original_filename, counter + 1),
                                    original_filename, counter + 1, existing)
    ELSE new_filename

\* while Path(new_filename).exists(): ...
RECURSIVE ConflictLoop(_, _, _, _)
ConflictLoop(new_filename, original_filename, counter, existing) ==
    IF new_filename \in existing
    THEN ConflictLoop(Renamed(original_filename, counter), original_filename,
                      counter + 1, existing)
    ELSE new_filename

\* the conflict check left out: the candidate name is used as it is
HandleConflictsNone(new_filename, existing) == new_filename

HandleConflicts(new_filename, existing) ==
    ConflictLoop(new_filename, new_filename, 1, existing)

header_safe_extensions ==
    { <<".","t","x","t">>, <<".","m","d">>, <<".","m","a","r","k","d","o","w","n">>,
      <<".","m","d","o","w","n">>, <<".","m","k","d">> }

GetsHeader(template_name, add_date_prefix) ==
    Lower(Extension(template_name)) \in header_safe_extensions /\ add_date_prefix

Header(template_name, dt) ==
    <<"#", " ", "STAR", " ", "T","e","m","p","l","a","t","e",":"," ">> \o template_name
        \o <<"LF", "#", "#", "#", " ", "CAL", " ">> \o StrfDateTime(dt)
        \o <<"LF", "-", "-", "-", "LF", "LF">>

FinalContent(template_name, add_date_prefix, content, dt) ==
    IF GetsHeader(template_name, add_date_prefix)
    THEN Header(template_name, dt) \o content
    ELSE content

(***************************************************************************)
(* The session.                                                            *)
(***************************************************************************)
VARIABLES
    os,              \* "posix" or "nt" (where termios never imports); decides os.linesep
    use_termios,     \* self.use_termios
    tdir,            \* the template directory
    cwd,             \* the working directory
    inTemplateDir,   \* the program was started inside the template directory
    templates,       \* self.templates
    selected_index,  \* self.selected_index (0-based)
    now,             \* the clock, in ticks
    pc,              \* where run() stands: "waiting", "esc", "ack", "done", "crashed"
    key,             \* run(): the key returned by get_key_termios (or read so far)
    command,         \* run(): the command returned by get_command_fallback
    output,          \* what the terminal shows: "ui", "help", "hint", "created", "traceback"
    filename,        \* run(): the file name returned by create_file_from_template
    exc,             \* the exception that left run(), "none" when there is none
    interrupted,     \* KeyboardInterrupt was caught by run()
    termReset,       \* the finally clause of run() printed Color.RESET
    written          \* number of files this process opened for writing

vars ==
    <<os, use_termios, tdir, cwd, inTemplateDir, templates, selected_index, now, pc, key,
      command, output, filename, exc, interrupted, termReset, written>>

\* keys the terminal can deliver to sys.stdin.read(1); <<>> is end of input
KeyChars == {"q", "c", "CR", "ESC", "x", "Q", "ETX"}

\* characters the terminal can deliver to sys.stdin.read(2) after an escape
EscTails == {<<"[", "A">>, <<"[", "B">>, <<"[", "C">>, <<"q", "c">>}

\* lines the user can type at input()
Lines ==
    { <<>>, <<" ">>, <<"q">>, <<"Q","u","i","t"," ">>, <<"e","x","i","t">>,
      <<"u","p">>, <<"u">>, <<" ","U","P">>, <<"d","o","w","n">>, <<"d">>, <<"D">>,
      <<"0">>, <<"1">>, <<"2">>, <<"3">>, <<"4">>, <<"0","2">>, <<"1","0">>, <<"-","1">>,
      <<"SUP2">>, <<"e","n","t","e","r">>, <<"e">>, <<"c","o","p","y">>, <<"c">>,
      <<"h","e","l","p">>, <<"h">>, <<"?">>, <<"x">> }

Init ==
    /\ os \in {"posix", "nt"}
    /\ use_termios \in (IF os = "posix" THEN BOOLEAN ELSE {FALSE})
    /\ tdir \in DirChoices
    /\ inTemplateDir \in BOOLEAN
    /\ cwd \in (IF inTemplateDir THEN {tdir} ELSE CwdChoices)
    /\ templates = load_templates(tdir)
    /\ selected_index = 0
    /\ now = 0
    /\ pc = "waiting"
    /\ key = <<>>
    /\ command = <<>>
    /\ output = "ui"
    /\ filename = <<>>
    /\ exc = "none"
    /\ interrupted = FALSE
    /\ termReset = FALSE
    /\ written = 0

\* the loop of run() goes round: draw_ui, then block for the next input
Continue ==
    /\ pc' = "waiting"
    /\ output' = "ui"
    /\ UNCHANGED <<filename, exc, interrupted, termReset, written, cwd, tdir, now>>

\* the break that does not leave the loop
BreakStays ==
    /\ pc' = "waiting"
    /\ UNCHANGED <<output, filename, exc, interrupted, termReset, written, cwd, tdir, now>>

\* break: leave the loop through the finally clause
Break ==
    /\ pc' = "done"
    /\ termReset' = TRUE
    /\ UNCHANGED <<output, filename, exc, interrupted, written, cwd, tdir, now>>

\* an exception other than KeyboardInterrupt leaves run() through the finally clause
Raise(e) ==
    /\ pc' = "crashed"
    /\ exc' = e
    /\ output' = "traceback"
    /\ termReset' = TRUE

\* the working directory after open(new_filename, 'w') and write(final_content)
Stored(dir, new_filename, data) == (new_filename :> File(data)) @@ dir

\* the report without the break: the loop goes on
CreatedContinues(new_filename) ==
    /\ filename' = new_filename
    /\ output' = "created"
    /\ pc' = "waiting"
    /\ UNCHANGED <<exc, interrupted, termReset>>

\* the caller of create_file_from_template reports the file name and breaks
Created(new_filename) ==
    /\ filename' = new_filename
    /\ output' = "created"
    /\ pc' = "done"
    /\ termReset' = TRUE
    /\ UNCHANGED <<exc, interrupted>>

\* create_file_from_template followed by the caller's report and break
CreateFileFromTemplate(template_name, add_date_prefix) ==
    \E rd \in {"ok", "OSError", "UnicodeDecodeError"} :
        IF rd /= "ok"
        THEN /\ Raise(rd)
             /\ UNCHANGED <<filename, interrupted, written, cwd, tdir, now>>
        ELSE \E t2 \in (IF GetsHeader(template_name, add_date_prefix)
                        THEN now..MaxTicks ELSE {now}) :
             \E wr \in {"ok", "open fails", "write fails"} :
                LET content == ReadText(tdir[template_name].content)
                    new_filename ==
                        HandleConflicts(
                            NewFilename(template_name, add_date_prefix, DateTimeAt(now)),
                            DOMAIN cwd)
                    final_content ==
                        FinalContent(template_name, add_date_prefix, content, DateTimeAt(t2))
                    data == IF wr = "ok" THEN WriteText(final_content, os) ELSE <<>>
                IN  /\ now' = t2
                    /\ IF wr = "open fails"
                       THEN /\ Raise("OSError")
                            /\ UNCHANGED <<filename, interrupted, written, cwd, tdir>>
                       ELSE /\ cwd' = Stored(cwd, new_filename, data)
                            /\ tdir' = IF inTemplateDir
                                       THEN Stored(tdir, new_filename, data) ELSE tdir
                            /\ written' = written + 1
                            /\ IF wr = "write fails"
                               THEN /\ Raise("OSError")
                                    /\ UNCHANGED <<filename, interrupted>>
                               ELSE Created(new_filename)

\* the raw mode branch with the 'c' key asking for the date prefix as Enter does
HandleKeyCopyDated(k) ==
    /\ key' = k
    /\ UNCHANGED <<os, use_termios, inTemplateDir, templates, command>>
    /\ IF k = <<"q">>
       THEN Break /\ UNCHANGED selected_index
       ELSE IF k = <<"ESC", "[", "A">> /\ templates /= <<>>
       THEN selected_index' = Max(0, selected_index - 1) /\ Continue
       ELSE IF k = <<"ESC", "[", "B">> /\ templates /= <<>>
       THEN selected_index' = Min(Len(templates) - 1, selected_index + 1) /\ Continue
       ELSE IF k \in {<<"CR">>, <<"c">>} /\ templates /= <<>>
       THEN /\ CreateFileFromTemplate(templates[selected_index + 1], TRUE)
            /\ UNCHANGED selected_index
       ELSE Continue /\ UNCHANGED selected_index

\* the body of the raw mode branch of run() for one key
HandleKey(k) ==
    /\ key' = k
    /\ UNCHANGED <<os, use_termios, inTemplateDir, templates, command>>
    /\ IF k = <<"q">>
       THEN Break /\ UNCHANGED selected_index
       ELSE IF k = <<"ESC", "[", "A">> /\ templates /= <<>>
       THEN selected_index' = Max(0, selected_index - 1) /\ Continue
       ELSE IF k = <<"ESC", "[", "B">> /\ templates /= <<>>
       THEN selected_index' = Min(Len(templates) - 1, selected_index + 1) /\ Continue
       ELSE IF k = <<"CR">> /\ templates /= <<>>
       THEN /\ CreateFileFromTemplate(templates[selected_index + 1], TRUE)
            /\ UNCHANGED selected_index
       ELSE IF k = <<"c">> /\ templates /= <<>>
       THEN /\ CreateFileFromTemplate(templates[selected_index + 1], FALSE)
            /\ UNCHANGED selected_index
       ELSE Continue /\ UNCHANGED selected_index

\* get_key_termios: sys.stdin.read(1); an escape character needs two more
RawKey ==
    /\ pc = "waiting"
    /\ use_termios
    /\ \E k \in {<<c>> : c \in KeyChars} \cup {<<>>} :
           IF k = <<"ESC">>
           THEN /\ key' = k
                /\ pc' = "esc"
                /\ UNCHANGED <<os, use_termios, tdir, cwd, inTemplateDir, templates,
                               selected_index, now, command, output, filename, exc,
                               interrupted, termReset, written>>
           ELSE HandleKey(k)

\* get_key_termios: sys.stdin.read(2) completes the escape sequence
RawEscape ==
    /\ pc = "esc"
    /\ \E tail \in EscTails : HandleKey(key \o tail)

\* the jump without the range test
JumpToUnchecked(c, index, size) == IntOf(c) - 1

\* the index a numbered command selects (1-based on the command line)
JumpTo(c, index, size) ==
    LET target_index == IntOf(c) - 1
    IN  IF 0 <= target_index /\ target_index < size THEN target_index ELSE index

\* the help screen moving the selection back to the first template
HelpResetsSelection ==
    /\ output' = "help"
    /\ pc' = "ack"
    /\ selected_index' = 0
    /\ UNCHANGED <<filename, exc, interrupted, termReset, written, cwd, tdir, now>>

\* the help screen, then input("Press Enter to continue...")
Help ==
    /\ output' = "help"
    /\ pc' = "ack"
    /\ UNCHANGED <<selected_index, filename, exc, interrupted, termReset, written, cwd,
                   tdir, now>>

\* the unknown command ending the session
UnknownExits ==
    /\ output' = "hint"
    /\ pc' = "done"
    /\ termReset' = TRUE
    /\ UNCHANGED <<selected_index, filename, exc, interrupted, written, cwd, tdir, now>>

\* the hint for an unknown command, then input("Press Enter to continue...")
Unknown ==
    /\ output' = "hint"
    /\ pc' = "ack"
    /\ UNCHANGED <<selected_index, filename, exc, interrupted, termReset, written, cwd,
                   tdir, now>>

\* handle_fallback_command and the test of its result in run()
HandleFallbackCommand(cmd) ==
    LET c == IF cmd = <<>> THEN <<"e","n","t","e","r">> ELSE cmd
    IN  /\ command' = cmd
        /\ UNCHANGED <<os, use_termios, inTemplateDir, templates, key>>
        /\ IF c \in {<<"q">>, <<"q","u","i","t">>, <<"e","x","i","t">>}
           THEN Break /\ UNCHANGED selected_index
           ELSE IF c \in {<<"u","p">>, <<"u">>} /\ templates /= <<>>
           THEN selected_index' = Max(0, selected_index - 1) /\ Continue
           ELSE IF c \in {<<"d","o","w","n">>, <<"d">>} /\ templates /= <<>>
           THEN selected_index' = Min(Len(templates) - 1, selected_index + 1) /\ Continue
           ELSE IF IsDigit(c) /\ templates /= <<>>
           THEN IF IntParses(c)
                THEN selected_index' = JumpTo(c, selected_index, Len(templates)) /\ Continue
                ELSE /\ Raise("ValueError")
                     /\ UNCHANGED <<selected_index, filename, interrupted, written, cwd,
                                    tdir, now>>
           ELSE IF c \in {<<"e","n","t","e","r">>, <<"e">>, <<>>} /\ templates /= <<>>
           THEN /\ CreateFileFromTemplate(templates[selected_index + 1], TRUE)
                /\ UNCHANGED selected_index
           ELSE IF c \in {<<"c","o","p","y">>, <<"c">>} /\ templates /= <<>>
           THEN /\ CreateFileFromTemplate(templates[selected_index + 1], FALSE)
                /\ UNCHANGED selected_index
           ELSE IF c \in {<<"h","e","l","p">>, <<"h">>, <<"?">>}
           THEN Help
           ELSE Unknown

\* get_command_fallback: input().strip().lower(), then the command is handled
FallbackCommand ==
    /\ pc = "waiting"
    /\ ~use_termios
    /\ \E line \in Lines : HandleFallbackCommand(Lower(Strip(line)))

\* input("Press Enter to continue..."): any line is accepted and dropped
Acknowledge ==
    /\ pc = "ack"
    /\ Continue
    /\ UNCHANGED <<os, use_termios, inTemplateDir, templates, selected_index, key, command>>

\* input() meets the end of standard input
EndOfInput ==
    /\ pc \in {"waiting", "ack"}
    /\ ~use_termios
    /\ Raise("EOFError")
    /\ UNCHANGED <<os, use_termios, tdir, cwd, inTemplateDir, templates, selected_index,
                   now, key, command, filename, interrupted, written>>

\* SIGINT while blocked on input: except KeyboardInterrupt: pass, then finally
Interrupt ==
    /\ pc \in {"waiting", "esc", "ack"}
    /\ pc' = "done"
    /\ interrupted' = TRUE
    /\ termReset' = TRUE
    /\ UNCHANGED <<os, use_termios, tdir, cwd, inTemplateDir, templates, selected_index,
                   now, key, command, output, filename, exc, written>>

\* time passes while the session is blocked on input
Tick ==
    /\ pc \in {"waiting", "esc", "ack"}
    /\ now < MaxTicks
    /\ now' = now + 1
    /\ UNCHANGED <<os, use_termios, tdir, cwd, inTemplateDir, templates, selected_index,
                   pc, key, command, output, filename, exc, interrupted, termReset,
                   written>>

Next ==
    \/ RawKey
    \/ RawEscape
    \/ FallbackCommand
    \/ Acknowledge
    \/ EndOfInput
    \/ Interrupt
    \/ Tick

Spec == Init /\ [][Next]_vars

(***************************************************************************)
(* The construction of the catalog alone, over every small directory.      *)
(***************************************************************************)
dot_env == <<".","e","n","v">>

dot_gitignore == <<".","g","i","t","i","g","n","o","r","e">>

news_lower == <<"n","e","w","s">>

Makefile == <<"M","a","k","e","f","i","l","e">>

pipe_md == <<"p","i","p","e",".","m","d">>

\* a directory entry that is neither a regular file nor a directory
Fifo == [kind |-> "fifo", content |-> <<>>]

\* entries a template directory may hold
CatalogEntries ==
    (report_txt :> File(<<>>)) @@ (notes_MD :> File(<<>>)) @@ (NEWS :> File(<<>>))
        @@ (news_lower :> File(<<>>)) @@ (photo_png :> File(<<>>))
        @@ (dot_env :> File(<<>>)) @@ (dot_gitignore :> File(<<>>))
        @@ (old_txt :> Directory) @@ (Makefile :> Directory) @@ (pipe_md :> Fifo)

CatalogDirs ==
    { [n \in S |-> CatalogEntries[n]] :
          S \in {T \in SUBSET DOMAIN CatalogEntries : Cardinality(T) <= MaxDirEntries} }

\* __init__ before load_templates: the catalog is still the empty list
InitCatalog ==
    /\ os = "posix"
    /\ use_termios = TRUE
    /\ tdir \in CatalogDirs
    /\ inTemplateDir = FALSE
    /\ cwd = [n \in {} |-> Directory]
    /\ templates = <<>>
    /\ selected_index = 0
    /\ now = 0
    /\ pc = "init"
    /\ key = <<>>
    /\ command = <<>>
    /\ output = "ui"
    /\ filename = <<>>
    /\ exc = "none"
    /\ interrupted = FALSE
    /\ termReset = FALSE
    /\ written = 0

\* __init__: self.load_templates()
LoadTemplates ==
    /\ pc = "init"
    /\ templates' = load_templates(tdir)
    /\ pc' = "waiting"
    /\ UNCHANGED <<os, use_termios, tdir, cwd, inTemplateDir, selected_index, now, key,
                   command, output, filename, exc, interrupted, termReset, written>>

NextCatalog == LoadTemplates

SpecCatalog == InitCatalog /\ [][NextCatalog]_vars

(***************************************************************************)
(* Vocabulary of the properties.                                           *)
(***************************************************************************)
\* run() handled a complete key in raw mode during this step
RawHandled == use_termios /\ pc' /= "esc" /\ (RawKey \/ RawEscape)

\* run() handled a command line in fallback mode during this step
FallbackHandled == ~use_termios /\ pc = "waiting" /\ FallbackCommand

UpArrow == <<"ESC", "[", "A">>

DownArrow == <<"ESC", "[", "B">>

QuitWords == {<<"q">>, <<"q","u","i","t">>, <<"e","x","i","t">>}

UpWords == {<<"u","p">>, <<"u">>}

DownWords == {<<"d","o","w","n">>, <<"d">>}

EnterWords == {<<>>, <<"e","n","t","e","r">>, <<"e">>}

CopyWords == {<<"c","o","p","y">>, <<"c">>}

HelpWords == {<<"h","e","l","p">>, <<"h">>, <<"?">>}

\* the last input asked to quit
QuitInput == IF use_termios THEN key = <<"q">> ELSE command \in QuitWords

\* the last input asked for an instantiation with the date prefix
DatePrefixRequested == IF use_termios THEN key = <<"CR">> ELSE command \in EnterWords

\* this step wrote a file and reported it
CreatedStep == output /= "created" /\ output' = "created"

\* the template the selection points at
Selected == templates[selected_index + 1]

\* a name cut at its last '.': the part before it, and the part from it on
NameWithoutExt(n) == IF HasDot(n) THEN SubSeq(n, 1, LastDot(n) - 1) ELSE n

ExtOf(n) == IF HasDot(n) THEN SubSeq(n, LastDot(n), Len(n)) ELSE <<>>

\* "{nameWithoutExt}-{k}{ext}"
Numbered(n, k) == NameWithoutExt(n) \o <<"-">> \o StrOfNat(k) \o ExtOf(n)

\* the smallest k >= 1 whose numbered name is free
SmallestFree(n, existing) ==
    CHOOSE k \in 1..(Cardinality(existing) + 1) :
        /\ Numbered(n, k) \notin existing
        /\ \A j \in 1..(k - 1) : Numbered(n, j) \in existing

report_2_txt == <<"r","e","p","o","r","t","-","2",".","t","x","t">>

report_1_1_txt == <<"r","e","p","o","r","t","-","1","-","1",".","t","x","t">>

\* the date the clock shows, written out: the session starts on 2024-02-29 one
\* second before midnight
DateLiteral(t) ==
    IF t = 0 THEN <<"2","0","2","4","-","0","2","-","2","9">>
    ELSE <<"2","0","2","4","-","0","3","-","0","1">>

ProseExtensions ==
    { <<".","t","x","t">>, <<".","m","d">>, <<".","m","a","r","k","d","o","w","n">>,
      <<".","m","d","o","w","n">>, <<".","m","k","d">> }

(***************************************************************************)
(* C1                                                                      *)
(***************************************************************************)
\* C1: the selected index starts at 0, and in every reachable state of a session
\* with a non-empty catalog, in raw and in fallback mode, 0 <= index < len(catalog).
C1_IndexInRange ==
    /\ selected_index = 0
    /\ [](templates /= <<>> =>
              (0 <= selected_index /\ selected_index < Len(templates)))

\* an out-of-range jump was handled while the last of three templates is selected
C1_Witness ==
    /\ Len(templates) = 3
    /\ selected_index = 2
    /\ command = <<"4">>
    /\ pc = "waiting"

(***************************************************************************)
(* C2                                                                      *)
(***************************************************************************)
\* C2: the file name an instantiation returns is the original candidate when no
\* file of that name exists, otherwise "{nameWithoutExt}-{k}{ext}" built from the
\* original candidate with k the smallest integer >= 1 whose name is free; with
\* report.txt and report-1.txt present a copy of report.txt is report-2.txt,
\* never report-1-1.txt.
C2_CollisionResolution ==
    [][CreatedStep =>
           LET existing == DOMAIN cwd
               original ==
                   IF DatePrefixRequested'
                   THEN StrfDate(DateTimeAt(now)) \o <<"-">> \o Selected
                   ELSE Selected
           IN  /\ filename' =
                      IF original \notin existing THEN original
                      ELSE Numbered(original, SmallestFree(original, existing))
               /\ (/\ Selected = report_txt
                   /\ ~DatePrefixRequested'
                   /\ {report_txt, report_1_txt} \subseteq existing)
                      => (filename' = report_2_txt /\ filename' /= report_1_1_txt)]_vars

\* report.txt was copied next to report.txt and report-1.txt
C2_Witness ==
    /\ output = "created"
    /\ filename = report_2_txt
    /\ {report_txt, report_1_txt, report_2_txt} \subseteq DOMAIN cwd

(***************************************************************************)
(* C3                                                                      *)
(***************************************************************************)
\* C3: the content an instantiation writes is the header followed by the template
\* content exactly when the template's extension, compared case-insensitively, is a
\* prose extension and the date prefix was asked for; in every other case the
\* written content is identical to the template content.
C3_ContentTransform ==
    output = "created" =>
        LET raw == tdir[Selected].content
            stored == cwd[filename].content
        IN  IF Lower(ExtOf(Selected)) \in ProseExtensions /\ DatePrefixRequested
            THEN \E t \in 0..MaxTicks :
                     stored = Header(Selected, DateTimeAt(t)) \o raw
            ELSE stored = raw

(***************************************************************************)
(* C4                                                                      *)
(***************************************************************************)
\* C4: when no file of the candidate name exists in the working directory, the
\* final file name is exactly the template name without the date prefix, and
\* "{YYYY-MM-DD}-{templateName}" for the current date with it; the base name and
\* the extension are the parts of the template name around its last '.', the
\* extension empty when the name has no '.'.
C4_CandidateNaming ==
    [][CreatedStep =>
           LET candidate ==
                   IF DatePrefixRequested'
                   THEN DateLiteral(now) \o <<"-">> \o Selected
                   ELSE Selected
           IN  /\ candidate \notin DOMAIN cwd => filename' = candidate
               /\ BaseName(Selected) = NameWithoutExt(Selected)
               /\ Extension(Selected) = ExtOf(Selected)]_vars

\* notes.MD was instantiated with the date prefix after midnight, no collision
C4_Witness ==
    /\ output = "created"
    /\ filename = <<"2","0","2","4","-","0","3","-","0","1","-">> \o notes_MD

(***************************************************************************)
(* C5                                                                      *)
(***************************************************************************)
\* C5: in both modes at most one file is written per session, and once a file
\* is written the session has ended: a reported instantiation leaves run() at
\* once, so no command is handled after it.
C5_SingleShot ==
    /\ written <= 1
    /\ written = 1 => pc \in {"done", "crashed"}
    /\ output = "created" => (pc = "done" /\ written = 1)

\* a file was created after the selection had been moved to the third template
C5_Witness ==
    /\ output = "created"
    /\ written = 1
    /\ selected_index = 2
    /\ pc = "done"

(***************************************************************************)
(* C6                                                                      *)
(***************************************************************************)
\* C6: with an empty catalog, in both modes, every handled input other than Quit
\* writes no file, leaves the index unchanged and does not end the session
\* (this covers the navigation and instantiate inputs, the empty line included);
\* Quit ends the session, and Help is still served in fallback mode.
C6_EmptyCatalog ==
    [][(templates = <<>> /\ (RawHandled \/ FallbackHandled)) =>
           IF QuitInput'
           THEN pc' = "done" /\ written' = written /\ cwd' = cwd
           ELSE /\ cwd' = cwd
                /\ written' = written
                /\ selected_index' = selected_index
                /\ pc' \in {"waiting", "ack"}
                /\ exc' = "none"
                /\ (~use_termios /\ command' \in HelpWords) => output' = "help"]_vars

\* the empty line, which stands for enter, was handled with an empty catalog
C6_Witness ==
    /\ templates = <<>>
    /\ ~use_termios
    /\ command = <<>>
    /\ output = "hint"
    /\ pc = "ack"
    /\ written = 0

(***************************************************************************)
(* C7                                                                      *)
(***************************************************************************)
\* a MoveDown was handled during this step
MoveDownStep ==
    /\ templates /= <<>>
    /\ \/ use_termios /\ pc = "esc" /\ key' = DownArrow /\ RawEscape
       \/ ~use_termios /\ pc = "waiting" /\ command' \in DownWords /\ FallbackCommand

\* a MoveUp was handled during this step
MoveUpStep ==
    /\ templates /= <<>>
    /\ \/ use_termios /\ pc = "esc" /\ key' = UpArrow /\ RawEscape
       \/ ~use_termios /\ pc = "waiting" /\ command' \in UpWords /\ FallbackCommand

\* C7: for a non-empty catalog of size n, MoveDown advances the index by exactly
\* one until it is n-1 and leaves it at n-1 from then on, MoveUp lowers it by
\* exactly one until it is 0 and leaves it at 0 from then on: repeated moves reach
\* the edge, stay there, and never wrap to the other end.
C7_BoundaryIdempotence ==
    [][/\ MoveDownStep =>
              selected_index' = IF selected_index = Len(templates) - 1
                                THEN Len(templates) - 1 ELSE selected_index + 1
       /\ MoveUpStep =>
              selected_index' = IF selected_index = 0 THEN 0 ELSE selected_index - 1]_vars

\* a down arrow was handled and the last of three templates is selected
C7_Witness ==
    /\ Len(templates) = 3
    /\ selected_index = 2
    /\ key = DownArrow
    /\ pc = "waiting"

(***************************************************************************)
(* C8                                                                      *)
(***************************************************************************)
\* C8: in fallback mode with a non-empty catalog, a command that is a string of
\* decimal digits of value n sets the index to n-1 when 1 <= n <= catalogSize and
\* is otherwise ignored: the index is unchanged, nothing is reported, no file is
\* written and the session waits for the next command.
C8_JumpTo ==
    [][(/\ ~use_termios
        /\ pc = "waiting"
        /\ templates /= <<>>
        /\ IntParses(command')
        /\ FallbackCommand) =>
           LET n == IntOf(command')
           IN  /\ selected_index' =
                      IF 1 <= n /\ n <= Len(templates) THEN n - 1 ELSE selected_index
               /\ pc' = "waiting"
               /\ output' = "ui"
               /\ exc' = "none"
               /\ written' = written
               /\ cwd' = cwd]_vars

\* the jump to 0 was ignored while the second template is selected
C8_Witness ==
    /\ ~use_termios
    /\ command = <<"0">>
    /\ selected_index = 1
    /\ pc = "waiting"
    /\ output = "ui"

(***************************************************************************)
(* C9                                                                      *)
(***************************************************************************)
\* C9: when reading the selected template or writing the destination fails
\* during an instantiation, no unhandled error leaves the main loop: the failure
\* is reported as a message and the session ends without crashing.
C9_FailureHandled == exc \notin {"OSError", "UnicodeDecodeError"}

(***************************************************************************)
(* C10                                                                     *)
(***************************************************************************)
\* the command is none of the words of the command language and no string of
\* decimal digits
Unrecognized(c) ==
    /\ c \notin QuitWords \cup UpWords \cup DownWords \cup EnterWords \cup CopyWords
                    \cup HelpWords
    /\ ~IntParses(c)

\* the command is a number outside 1..catalogSize
OutOfRange(c) == IntParses(c) /\ (IntOf(c) < 1 \/ IntOf(c) > Len(templates))

\* C10: an unrecognized input (any other key in raw mode, any other line in
\* fallback mode) and an out-of-range jump never end the session and write no
\* file: the loop waits for the next command, in fallback mode after the hint has
\* been acknowledged.
C10_InvalidNeverEnds ==
    [][(\/ RawHandled
           /\ key' \notin {<<"q">>, UpArrow, DownArrow, <<"CR">>, <<"c">>}
        \/ FallbackHandled
           /\ (Unrecognized(command') \/ (templates /= <<>> /\ OutOfRange(command')))) =>
           /\ pc' \in {"waiting", "ack"}
           /\ exc' = "none"
           /\ written' = written
           /\ cwd' = cwd]_vars

(***************************************************************************)
(* C11                                                                     *)
(***************************************************************************)
\* the user interrupted the session during this step: SIGINT reached the process
\* (KeyboardInterrupt), or Ctrl-C was typed while get_key_termios holds the terminal
\* in raw mode, where it arrives as the character \x03
UserInterruptStep ==
    \/ pc \in {"waiting", "esc", "ack"} /\ Interrupt
    \/ use_termios /\ pc = "waiting" /\ key' = <<"ETX">> /\ RawKey

\* C11: in every state in which the session is blocked waiting for input (a raw
\* keypress, a fallback command line, an acknowledgment), a user interrupt ends the
\* session at once and gracefully: terminal formatting is reset, no file is
\* written and no error is reported.
C11_InterruptGraceful ==
    [][UserInterruptStep =>
           /\ pc' = "done"
           /\ termReset'
           /\ exc' = "none"
           /\ output' /= "traceback"
           /\ written' = written
           /\ cwd' = cwd]_vars

(***************************************************************************)
(* C12                                                                     *)
(***************************************************************************)
\* every spelling of Quit of the active mode can be given and ends the session
QuitAvailable ==
    IF use_termios
    THEN ENABLED (key' = <<"q">> /\ pc' = "done" /\ RawKey)
    ELSE \A w \in QuitWords : ENABLED (command' = w /\ pc' = "done" /\ FallbackCommand)

\* C12: in every state in which the session waits for a command, in both modes,
\* with an empty or a non-empty catalog and whatever was handled before, the Quit
\* command (raw 'q'; fallback 'q', 'quit', 'exit') can be given, and once it has
\* been handled the session has ended without a file written and without an error.
C12_QuitAlwaysAvailable ==
    /\ pc = "waiting" => QuitAvailable
    /\ QuitInput => (pc = "done" /\ exc = "none" /\ written = 0)

\* 'quit' ended a fallback session whose catalog is empty
C12_Witness ==
    /\ templates = <<>>
    /\ ~use_termios
    /\ command = <<"q","u","i","t">>
    /\ pc = "done"
    /\ ~interrupted
    /\ exc = "none"
    /\ written = 0

(***************************************************************************)
(* C13                                                                     *)
(***************************************************************************)
\* the name ends, case-insensitively, with the extension e and has a non-empty
\* part before it (a name that is only ".env" has no extension)
HasExtension(n, e) ==
    /\ Len(n) > Len(e)
    /\ Lower(SubSeq(n, Len(n) - Len(e) + 1, Len(n))) = e

\* the reference filter: the name is in the extension-less allow-list, or its
\* extension is in the text-extension allow-list
Eligible(n) == n \in NO_EXT_FILES \/ \E e \in TEXT_EXTENSIONS : HasExtension(n, e)

\* C13: for every content of the template directory the loaded catalog is sorted
\* ascending by file name and holds exactly the regular files whose name is in the
\* extension-less allow-list or whose extension, compared case-insensitively, is
\* in the text-extension allow-list; directories and non-regular files are never
\* listed.
C13_CatalogListing ==
    pc = "waiting" =>
        /\ \A i, j \in 1..Len(templates) : i < j => StrLess(templates[i], templates[j])
        /\ {templates[i] : i \in 1..Len(templates)} =
               {n \in DOMAIN tdir : tdir[n].kind = "file" /\ Eligible(n)}
        /\ \A i \in 1..Len(templates) : tdir[templates[i]].kind = "file"

\* .gitignore and notes.MD were listed, in this order, and .env was not
C13_Witness ==
    /\ pc = "waiting"
    /\ DOMAIN tdir = {dot_env, dot_gitignore, notes_MD}
    /\ templates = <<dot_gitignore, notes_MD>>

(***************************************************************************)
(* C14                                                                     *)
(***************************************************************************)
\* what an Instantiate command does: the session ends, with the file named for
\* the selected template and the flag, or with the I/O error of the attempt
InstantiateEffect(add_date_prefix) ==
    /\ pc' \in {"done", "crashed"}
    /\ selected_index' = selected_index
    /\ IF output' = "created"
       THEN filename' = HandleConflicts(
                            NewFilename(Selected, add_date_prefix, DateTimeAt(now)),
                            DOMAIN cwd)
       ELSE exc' \in {"OSError", "UnicodeDecodeError"} /\ filename' = filename

\* C14: in fallback mode with a non-empty catalog the trimmed, lowercased line
\* maps to exactly one command: empty, 'enter', 'e' to Instantiate(true); 'copy',
\* 'c' to Instantiate(false); 'up', 'u' to MoveUp; 'down', 'd' to MoveDown; a string
\* of decimal digits to JumpTo(its value); 'quit', 'q', 'exit' to Quit; 'help', 'h',
\* '?' to Help; anything else to Unknown.
C14_FallbackTranslation ==
    [][(/\ ~use_termios
        /\ pc = "waiting"
        /\ templates /= <<>>
        /\ FallbackCommand) =>
           CASE command' \in EnterWords -> InstantiateEffect(TRUE)
             [] command' \in CopyWords -> InstantiateEffect(FALSE)
             [] command' \in UpWords ->
                    /\ selected_index' = IF selected_index = 0 THEN 0 ELSE selected_index - 1
                    /\ pc' = "waiting"
                    /\ written' = written
             [] command' \in DownWords ->
                    /\ selected_index' = IF selected_index = Len(templates) - 1
                                         THEN selected_index ELSE selected_index + 1
                    /\ pc' = "waiting"
                    /\ written' = written
             [] IntParses(command') ->
                    /\ selected_index' =
                           IF 1 <= IntOf(command') /\ IntOf(command') <= Len(templates)
                           THEN IntOf(command') - 1 ELSE selected_index
                    /\ pc' = "waiting"
                    /\ written' = written
             [] command' \in QuitWords ->
                    /\ pc' = "done"
                    /\ exc' = "none"
                    /\ selected_index' = selected_index
                    /\ written' = written
             [] command' \in HelpWords ->
                    /\ output' = "help"
                    /\ pc' = "ack"
                    /\ selected_index' = selected_index
                    /\ written' = written
             [] OTHER ->
                    /\ output' = "hint"
                    /\ pc' = "ack"
                    /\ exc' = "none"
                    /\ selected_index' = selected_index
                    /\ written' = written]_vars

(***************************************************************************)
(* C15                                                                     *)
(***************************************************************************)
\* the command the last input stands for, in the vocabulary both modes share
CommandOf ==
    IF use_termios
    THEN CASE key = UpArrow -> "MoveUp"
           [] key = DownArrow -> "MoveDown"
           [] key = <<"CR">> -> "InstantiateDated"
           [] key = <<"c">> -> "InstantiateCopy"
           [] key = <<"q">> -> "Quit"
           [] OTHER -> "other"
    ELSE CASE command \in UpWords -> "MoveUp"
           [] command \in DownWords -> "MoveDown"
           [] command \in EnterWords -> "InstantiateDated"
           [] command \in CopyWords -> "InstantiateCopy"
           [] command \in QuitWords -> "Quit"
           [] OTHER -> "other"

\* what a session shows of itself, whatever its mode: the selected index, whether
\* it has ended, the reported file name, the working directory, and the clock and
\* the error that tell which turn the environment took
SessionView ==
    [index |-> selected_index,
     ended |-> pc \in {"done", "crashed"},
     filename |-> filename,
     cwd |-> cwd,
     now |-> now,
     exc |-> exc]

\* the view v is one an instantiation leads to: which one is decided by the turn
\* the environment takes (the clock, the error), never by the mode
IsInstantiateView(v, add_date_prefix) ==
    LET name == HandleConflicts(NewFilename(Selected, add_date_prefix, DateTimeAt(now)),
                                DOMAIN cwd)
        text == WriteText(FinalContent(Selected, add_date_prefix,
                                       ReadText(tdir[Selected].content),
                                       DateTimeAt(v.now)),
                          os)
        \* the clock is read again only when the header is written
        times == IF GetsHeader(Selected, add_date_prefix) THEN now..MaxTicks ELSE {now}
    IN  /\ v.ended
        /\ v.index = selected_index
        /\ v.now \in times
        /\ CASE v.exc = "none" ->
                    v.filename = name /\ v.cwd = Stored(cwd, name, text)
             [] v.exc = "UnicodeDecodeError" ->
                    v.filename = filename /\ v.cwd = cwd /\ v.now = now
             [] v.exc = "OSError" ->
                    /\ v.filename = filename
                    /\ v.cwd = cwd \/ v.cwd = Stored(cwd, name, <<>>)
             [] OTHER -> FALSE

\* the view v is one the command c leads to; nothing here looks at the mode or at
\* the spelling of the input
IsCommandView(v, c) ==
    IF c = "Quit" THEN v = [SessionView EXCEPT !.ended = TRUE]
    ELSE IF templates = <<>> THEN v = SessionView
    ELSE CASE c = "MoveUp" ->
                  v = [SessionView EXCEPT !.index = IF @ = 0 THEN 0 ELSE @ - 1]
           [] c = "MoveDown" ->
                  v = [SessionView EXCEPT
                           !.index = IF @ = Len(templates) - 1 THEN @ ELSE @ + 1]
           [] c = "InstantiateDated" -> IsInstantiateView(v, TRUE)
           [] c = "InstantiateCopy" -> IsInstantiateView(v, FALSE)

\* an input was handled during this step: a step of RawKey, RawEscape or
\* FallbackCommand, not the clock, a signal, the end of input or the first
\* character of an escape sequence
HandledStep ==
    /\ pc \in {"waiting", "esc"}
    /\ pc' /= "esc"
    /\ interrupted' = interrupted
    /\ exc' /= "EOFError"
    /\ (now' = now \/ pc' /= pc)

\* C15: for the same catalog, working directory, clock and platform, a command of
\* {MoveUp, MoveDown, Instantiate(true), Instantiate(false), Quit} has the same
\* effect in raw and in fallback mode: the selected index after it, whether the
\* session ends at it, and the name and content of the file it writes are those
\* of one command machine that knows neither the mode nor the spelling of the
\* input, so two sessions given the same commands stay in step.
C15_ModeEquivalence ==
    [][(CommandOf' /= "other" /\ HandledStep) =>
           IsCommandView(SessionView', CommandOf')]_vars

\* a fallback session on the platform of the raw sessions created a dated prose
\* file after the selection was moved
C15_Witness ==
    /\ ~use_termios
    /\ os = "posix"
    /\ output = "created"
    /\ selected_index = 1
    /\ command = <<"e">>
    /\ filename = <<"2","0","2","4","-","0","2","-","2","9","-">> \o notes_MD

(***************************************************************************)
(* C16                                                                     *)
(***************************************************************************)
\* the last input was a jump to a position of the catalog
InRangeJumpInput ==
    /\ ~use_termios
    /\ IntParses(command)
    /\ 1 <= IntOf(command)
    /\ IntOf(command) <= Len(templates)

\* the last input was a navigation command: MoveUp, MoveDown or an in-range JumpTo
NavigationInput == CommandOf \in {"MoveUp", "MoveDown"} \/ InRangeJumpInput

\* C16: the catalog listed at startup is never changed by any step of the session,
\* and the selected index changes only in a step that handles MoveUp, MoveDown or
\* an in-range JumpTo: Help, unknown commands, ignored raw keys, out-of-range
\* JumpTo, Quit and Instantiate, like every step that handles no input, leave it
\* as it was.
C16_SessionFrame ==
    [][/\ templates' = templates
       /\ selected_index' /= selected_index => (HandledStep /\ NavigationInput')
       /\ (HandledStep /\ ~NavigationInput') => selected_index' = selected_index]_vars

\* the help screen was shown while the second template is selected
C16_Witness ==
    /\ output = "help"
    /\ pc = "ack"
    /\ selected_index = 1
    /\ command \in HelpWords

(***************************************************************************)
(* C17                                                                     *)
(***************************************************************************)
\* every entry of the directory before the step is in the directory after it,
\* with the same kind and content
Preserves(before, after) ==
    \A n \in DOMAIN before : n \in DOMAIN after /\ after[n] = before[n]

\* the last input asked for an instantiation
InstantiateInput == CommandOf \in {"InstantiateDated", "InstantiateCopy"}

\* C17: no step overwrites or alters an existing file. After a successful
\* instantiation every file that was in the working directory before it is still
\* there with the same content and exactly one new file, the reported one, has
\* been added; the same holds when the working directory is the template
\* directory, so the source template is not modified; and a step that handles a
\* navigation, help, unknown or quit command, like every step that is not an
\* instantiation, writes no file at all.
C17_NoOverwrite ==
    [][/\ Preserves(cwd, cwd')
       /\ Preserves(tdir, tdir')
       /\ CreatedStep =>
              /\ filename' \notin DOMAIN cwd
              /\ DOMAIN cwd' = DOMAIN cwd \cup {filename'}
              /\ Cardinality(DOMAIN cwd') = Cardinality(DOMAIN cwd) + 1
              /\ written' = written + 1
              /\ tdir'[Selected] = tdir[Selected]
              /\ inTemplateDir =>
                     (cwd = tdir /\ cwd' = tdir' /\ cwd'[Selected] = cwd[Selected])
       /\ ~(HandledStep /\ InstantiateInput' /\ templates /= <<>>) =>
              (cwd' = cwd /\ tdir' = tdir /\ written' = written)]_vars

\* a template was copied inside the template directory: the copy took the first
\* numbered name and the template is still there
C17_Witness ==
    /\ inTemplateDir
    /\ output = "created"
    /\ Selected \in DOMAIN cwd
    /\ filename = Numbered(Selected, 1)
    /\ cwd = tdir

(***************************************************************************)
(* C18                                                                     *)
(***************************************************************************)
\* the name is the candidate itself or the candidate numbered with a counter of
\* at most m
WithinCounter(name, candidate, m) ==
    name = candidate \/ \E k \in 1..m : name = Numbered(candidate, k)

\* C18: with finitely many files in the working directory and no other writer,
\* the collision loop terminates: wherever the session waits for an input the
\* loop has a result for every template and both kinds of instantiation, a name
\* that is free; and the counter in the final name is at most the number m of
\* files in the working directory, in that result and in the name every
\* successful instantiation reports.
C18_LoopTerminates ==
    /\ [](pc = "waiting" =>
              \A i \in 1..Len(templates) : \A add_date_prefix \in BOOLEAN :
                  LET candidate ==
                          NewFilename(templates[i], add_date_prefix, DateTimeAt(now))
                      result == HandleConflicts(candidate, DOMAIN cwd)
                  IN  /\ result \notin DOMAIN cwd
                      /\ WithinCounter(result, candidate, Cardinality(DOMAIN cwd)))
    /\ [][CreatedStep =>
              LET candidate ==
                      IF DatePrefixRequested'
                      THEN DateLiteral(now) \o <<"-">> \o Selected
                      ELSE Selected
              IN  /\ candidate \notin DOMAIN cwd => filename' = candidate
                  /\ WithinCounter(filename', candidate, Cardinality(DOMAIN cwd))]_vars

\* a copy took the counter 2 in a working directory that held two files
C18_Witness ==
    /\ output = "created"
    /\ ~DatePrefixRequested
    /\ Cardinality(DOMAIN cwd) = 3
    /\ filename = Numbered(Selected, 2)
    /\ written = 1

(***************************************************************************)
(* C19                                                                     *)
(***************************************************************************)
\* the date at the head of a date-prefixed file name
FilenameDate == SubSeq(filename, 1, 10)

\* the date of the timestamp line of the header stored in the created file: it
\* follows "# * Template: ", the template name, the line separator and "### * "
HeaderDate ==
    LET offset == 14 + Len(Selected) + Len(LineSep(os)) + 6
    IN  SubSeq(cwd[filename].content, offset + 1, offset + 10)

\* C19: after every date-prefixed instantiation of a prose template the date in
\* the prefix of the created file's name equals the date in the timestamp of the
\* header written into it, also when the clock advances between the steps of the
\* instantiation.
C19_OneDate ==
    (/\ output = "created"
     /\ DatePrefixRequested
     /\ Lower(ExtOf(Selected)) \in ProseExtensions) => FilenameDate = HeaderDate

====
